---- MODULE Spec2Model ----
(***************************************************************************)
(* A model of QSF.py: the classical order-finding factorization attempt.   *)
(*                                                                         *)
(* The pure methods (gcd, pow, simulate_period_finding, extract_symmetry)  *)
(* are operators computed the way the code computes them.  The method      *)
(* quantum_symmetry_factor is a state machine with one action per          *)
(* statement group; the two public helper methods can also be entered      *)
(* directly with arbitrary small arguments.                                *)
(***************************************************************************)
EXTENDS Integers, Sequences, FiniteSets

\* ---------------------------------------------------------------- bounds
\* largest modulus N explored
MaxN == 24
\* largest base passed directly to simulate_period_finding / extract_symmetry
MaxA == 27

\* largest modulus N explored under the fairness conditions of LiveSpec
MaxLiveN == 11

\* ---------------------------------------------------------------- values
\* Python's None in an integer-valued slot (r, gcd_value, a factor)
None == -1
\* Python's None as the return value of quantum_symmetry_factor
NoResult == << >>

VARIABLES
    entry,      \* the method the caller entered
    N,          \* the modulus (argument)
    a,          \* the base: sampled (quantum_symmetry_factor) or an argument
    gcd_value,  \* local of quantum_symmetry_factor
    r,          \* the period: local of quantum_symmetry_factor, argument of
                \* extract_symmetry, return value of simulate_period_finding
    factors,    \* <<factor1, factor2>>: return value of extract_symmetry
    result,     \* return value of quantum_symmetry_factor
    raised,     \* TRUE when the call ended in a Python exception
    pc,         \* position inside the entered method
    retried,    \* TRUE when this call follows a call that returned None
    trace       \* the steps of quantum_symmetry_factor executed by this call

vars == <<entry, N, a, gcd_value, r, factors, result, raised, pc, retried, trace>>

\* ------------------------------------------------------- pure functions

\* Python's built-in three-argument pow(b, e, m), m >= 1, e >= 0:
\* square-and-multiply, every product reduced modulo m.
RECURSIVE pow(_, _, _)
pow(b, e, m) ==
    IF e = 0 THEN 1 % m
    ELSE LET h == pow(b, e \div 2, m)
         IN  IF e % 2 = 0 THEN (h * h) % m
                          ELSE (((h * h) % m) * (b % m)) % m

\* gcd with "if" in place of "while": a single exchange, then return
gcd_single_step(x, y) == IF y # 0 THEN y ELSE x

\* QuantumSymmetryFactorization.gcd: while b != 0: a, b = b, a % b; return a
RECURSIVE gcd(_, _)
gcd(x, y) == IF y # 0 THEN gcd(y, x % y) ELSE x

\* the loop of simulate_period_finding from candidate k on: range(k, m)
RECURSIVE period_from(_, _, _)
period_from(b, m, k) ==
    IF k >= m THEN None
    ELSE IF pow(b, k, m) = 1 THEN k
    ELSE period_from(b, m, k + 1)

\* the search started at 2: range(2, N)
simulate_period_finding_from2(b, m) == period_from(b, m, 2)

\* the search stopped one short: range(1, N - 1)
simulate_period_finding_short(b, m) == period_from(b, m - 1, 1)

\* qsfQuantumComputer.simulate_period_finding(a, N): for r in range(1, N)
simulate_period_finding(b, m) == period_from(b, m, 1)

\* run_quantum_circuit and quantum_period_estimate only forward the call
run_quantum_circuit(b, m) == simulate_period_finding(b, m)
quantum_period_estimate(b, m) == run_quantum_circuit(b, m)

\* extract_symmetry without the x == N - 1 test
extract_symmetry_no_minus_one(b, k, m) ==
    LET x == pow(b, k \div 2, m)
    IN  IF x = 1
        THEN <<None, None>>
        ELSE <<gcd(x - 1, m), gcd(x + 1, m)>>

\* extract_symmetry with factor2 computed from x - 1 as well
extract_symmetry_same_side(b, k, m) ==
    LET x == pow(b, k \div 2, m)
    IN  IF x = 1 \/ x = m - 1
        THEN <<None, None>>
        ELSE <<gcd(x - 1, m), gcd(x - 1, m)>>

\* QuantumSymmetryFactorization.extract_symmetry(a, r, N)
extract_symmetry(b, k, m) ==
    LET x == pow(b, k \div 2, m)
    IN  IF x = 1 \/ x = m - 1
        THEN <<None, None>>
        ELSE <<gcd(x - 1, m), gcd(x + 1, m)>>

\* Python truthiness of an optional integer: None and 0 are falsy
Truthy(v) == v # None /\ v # 0

\* ----------------------------------------------------------------- state

QSF == "quantum_symmetry_factor"
SPF == "simulate_period_finding"
EXS == "extract_symmetry"

Init ==
    /\ entry \in {QSF, SPF, EXS}
    /\ N \in 1..MaxN
    /\ a \in IF entry = QSF THEN {None} ELSE 0..MaxA
    /\ r \in IF entry = EXS THEN 0..N ELSE {None}
    /\ gcd_value = None
    /\ factors = <<None, None>>
    /\ result = NoResult
    /\ raised = FALSE
    /\ pc = IF entry = QSF THEN "sample" ELSE "call"
    /\ retried = FALSE
    /\ trace = << >>

\* ------------------------------------------- quantum_symmetry_factor(N)

\* line 79: a = random.randint(2, N - 1), the draw being b
Sample(b) ==
    /\ entry = QSF /\ pc = "sample"
    /\ b \in 2..(N - 1)
    /\ a' = b
    /\ pc' = "gcd"
    /\ trace' = Append(trace, "sample")
    /\ UNCHANGED <<entry, N, gcd_value, r, factors, result, raised, retried>>

\* line 79 when the range [2, N-1] is empty: randint raises ValueError
SampleEmpty ==
    /\ entry = QSF /\ pc = "sample"
    /\ N - 1 < 2
    /\ raised' = TRUE
    /\ pc' = "done"
    /\ trace' = Append(trace, "sample")
    /\ UNCHANGED <<entry, N, a, gcd_value, r, factors, result, retried>>

\* the GCD check with the shortcut reporting failure instead of the factors
GcdCheck_no_shortcut ==
    /\ entry = QSF /\ pc = "gcd"
    /\ gcd_value' = gcd(a, N)
    /\ IF gcd_value' > 1
       THEN result' = NoResult /\ pc' = "done"
       ELSE result' = result /\ pc' = "order"
    /\ trace' = Append(trace, "gcd")
    /\ UNCHANGED <<entry, N, a, r, factors, raised, retried>>

\* the GCD check with the threshold one too high: gcd_value > 2
GcdCheck_threshold ==
    /\ entry = QSF /\ pc = "gcd"
    /\ gcd_value' = gcd(a, N)
    /\ IF gcd_value' > 2
       THEN result' = <<gcd_value', N \div gcd_value'>> /\ pc' = "done"
       ELSE result' = result /\ pc' = "order"
    /\ trace' = Append(trace, "gcd")
    /\ UNCHANGED <<entry, N, a, r, factors, raised, retried>>

\* lines 82-84: the preliminary GCD check
GcdCheck ==
    /\ entry = QSF /\ pc = "gcd"
    /\ gcd_value' = gcd(a, N)
    /\ IF gcd_value' > 1
       THEN result' = <<gcd_value', N \div gcd_value'>> /\ pc' = "done"
       ELSE result' = result /\ pc' = "order"
    /\ trace' = Append(trace, "gcd")
    /\ UNCHANGED <<entry, N, a, r, factors, raised, retried>>

\* order finding that resamples a base inside the call when r is unusable
OrderFinding_resample ==
    /\ entry = QSF /\ pc = "order"
    /\ r' = quantum_period_estimate(a, N)
    /\ IF r' = None \/ r' % 2 # 0
       THEN pc' = "sample"
       ELSE pc' = "extract"
    /\ result' = NoResult
    /\ trace' = Append(trace, "order")
    /\ UNCHANGED <<entry, N, a, gcd_value, factors, raised, retried>>

\* lines 87-90: estimate the period; None or odd ends the attempt
OrderFinding ==
    /\ entry = QSF /\ pc = "order"
    /\ r' = quantum_period_estimate(a, N)
    /\ IF r' = None \/ r' % 2 # 0
       THEN pc' = "done"
       ELSE pc' = "extract"
    /\ result' = NoResult
    /\ trace' = Append(trace, "order")
    /\ UNCHANGED <<entry, N, a, gcd_value, factors, raised, retried>>

\* line 93: factor1, factor2 = self.extract_symmetry(a, r, N)
Extraction ==
    /\ entry = QSF /\ pc = "extract"
    /\ factors' = extract_symmetry(a, r, N)
    /\ pc' = "verify"
    /\ trace' = Append(trace, "extract")
    /\ UNCHANGED <<entry, N, a, gcd_value, r, result, raised, retried>>

\* verification that accepts any two truthy candidates
Verification_no_product ==
    /\ entry = QSF /\ pc = "verify"
    /\ IF Truthy(factors[1]) /\ Truthy(factors[2])
       THEN result' = factors
       ELSE result' = NoResult
    /\ pc' = "done"
    /\ trace' = Append(trace, "verify")
    /\ UNCHANGED <<entry, N, a, gcd_value, r, factors, raised, retried>>

\* lines 95-99: accept the candidates only when their product is N
Verification ==
    /\ entry = QSF /\ pc = "verify"
    /\ IF Truthy(factors[1]) /\ Truthy(factors[2]) /\ factors[1] * factors[2] = N
       THEN result' = factors
       ELSE result' = NoResult
    /\ pc' = "done"
    /\ trace' = Append(trace, "verify")
    /\ UNCHANGED <<entry, N, a, gcd_value, r, factors, raised, retried>>

\* the caller's retry: after an attempt that returned None, call
\* quantum_symmetry_factor(N) again; every local starts afresh
Retry ==
    /\ entry = QSF /\ pc = "done"
    /\ ~raised /\ result = NoResult
    /\ a' = None /\ gcd_value' = None /\ r' = None
    /\ factors' = <<None, None>>
    /\ pc' = "sample"
    /\ trace' = << >>
    /\ retried' = TRUE
    /\ UNCHANGED <<entry, N, result, raised>>

\* ----------------------------------------------- direct calls of helpers

\* a caller invokes simulate_period_finding(a, N)
CallPeriodFinding ==
    /\ entry = SPF /\ pc = "call"
    /\ r' = simulate_period_finding(a, N)
    /\ pc' = "done"
    /\ UNCHANGED <<entry, N, a, gcd_value, factors, result, raised, retried, trace>>

\* a caller invokes extract_symmetry(a, r, N)
CallExtract ==
    /\ entry = EXS /\ pc = "call"
    /\ factors' = extract_symmetry(a, r, N)
    /\ pc' = "done"
    /\ UNCHANGED <<entry, N, a, gcd_value, r, result, raised, retried, trace>>

Next ==
    \/ \E b \in 2..MaxN : Sample(b)
    \/ SampleEmpty
    \/ GcdCheck
    \/ OrderFinding
    \/ Extraction
    \/ Verification
    \/ Retry
    \/ CallPeriodFinding
    \/ CallExtract

Spec == Init /\ [][Next]_vars

\* Every enabled statement of the running call is eventually executed, the
\* caller keeps retrying, and every base of [2, N-1] is sampled again and again.
LiveInit == Init /\ N <= MaxLiveN

LiveSpec ==
    /\ LiveInit /\ [][Next]_vars
    /\ WF_vars(SampleEmpty \/ GcdCheck \/ OrderFinding \/ Extraction \/ Verification)
    /\ WF_vars(Retry)
    /\ \A b \in 2..(MaxLiveN - 1) : SF_vars(Sample(b))

\* ------------------------------------------------ reference arithmetic
\* The mathematical notions the properties are stated with, defined
\* independently of the code's algorithms.

Divides(d, n) == \E q \in 0..n : n = d * q

\* the greatest common divisor of x >= 0 and y >= 1
MathGcd(x, y) ==
    CHOOSE d \in 1..y :
        /\ Divides(d, x) /\ Divides(d, y)
        /\ \A e \in 1..y : (Divides(e, x) /\ Divides(e, y)) => e <= d

IsPrime(n) == n >= 2 /\ \A d \in 2..(n - 1) : n % d # 0
IsComposite(n) == n >= 4 /\ ~IsPrime(n)

\* b^e mod m by e successive multiplications
RECURSIVE PowerMod(_, _, _)
PowerMod(b, e, m) == IF e = 0 THEN 1 % m ELSE (PowerMod(b, e - 1, m) * b) % m

\* k is the multiplicative order of b modulo m
IsOrder(b, k, m) ==
    /\ k >= 1
    /\ PowerMod(b, k, m) = 1
    /\ \A j \in 1..(k - 1) : PowerMod(b, j, m) # 1

Steps == {trace[i] : i \in 1..Len(trace)}
Last(seq) == seq[Len(seq)]

\* simulate_period_finding has returned into r
PeriodReturned ==
    \/ entry = SPF /\ pc = "done"
    \/ entry = QSF /\ "order" \in Steps

\* extract_symmetry has returned into factors
ExtractReturned ==
    \/ entry = EXS /\ pc = "done"
    \/ entry = QSF /\ "extract" \in Steps

\* quantum_symmetry_factor has returned a pair
PairReturned == entry = QSF /\ pc = "done" /\ ~raised /\ result # NoResult

\* ------------------------------------------------------------ properties

\* C1: for N >= 3, whenever quantum_symmetry_factor returns a pair
\* (factor1, factor2), by the trivial-GCD shortcut or by the extraction
\* path, factor1 * factor2 = N and both factors lie strictly between 1 and N.
C1_ReturnedPairIsNontrivial ==
    (PairReturned /\ N >= 3) =>
        /\ Len(result) = 2
        /\ result[1] * result[2] = N
        /\ 1 < result[1] /\ result[1] < N
        /\ 1 < result[2] /\ result[2] < N

\* a pair returned through extraction and verification
C1_Witness == PairReturned /\ N >= 3 /\ Last(trace) = "verify"

\* C2: for N >= 2 and a coprime to N, a value r returned by
\* simulate_period_finding(a, N) satisfies 1 <= r < N, a^r mod N = 1 and
\* a^k mod N # 1 for every 1 <= k < r.
C2_PeriodIsMinimalOrder ==
    (PeriodReturned /\ N >= 2 /\ a >= 1 /\ MathGcd(a, N) = 1 /\ r # None) =>
        /\ 1 <= r /\ r < N
        /\ PowerMod(a, r, N) = 1
        /\ \A k \in 1..(r - 1) : PowerMod(a, k, N) # 1

\* a direct call with a base above the modulus returning an order above 2
C2_Witness ==
    /\ entry = SPF /\ pc = "done"
    /\ N >= 2 /\ a > N /\ MathGcd(a, N) = 1 /\ r > 2

\* C9: for N >= 3 and a base a in [2, N-1] coprime to N,
\* simulate_period_finding(a, N) returns an r in [1, N) and never None; so
\* inside quantum_symmetry_factor an attempt that ends at the order-finding
\* step ends there because r is odd.
C9_PeriodAlwaysFound ==
    /\ (PeriodReturned /\ N >= 3 /\ a \in 2..(N - 1) /\ MathGcd(a, N) = 1)
          => (r # None /\ r \in 1..(N - 1))
    /\ (entry = QSF /\ N >= 3 /\ "order" \in Steps) => r # None
    /\ (entry = QSF /\ N >= 3 /\ pc = "done" /\ ~raised /\ Last(trace) = "order")
          => (r # None /\ r % 2 = 1)

\* an attempt that failed at the order-finding step with an odd order
C9_Witness ==
    /\ entry = QSF /\ N >= 3 /\ pc = "done" /\ Last(trace) = "order"
    /\ r # None /\ r % 2 = 1

\* C4: for a prime N >= 3 no attempt returns a pair: the trivial-GCD check
\* always finds gcd(a, N) = 1, and the attempt ends as failed because the
\* order is odd or because a^(r/2) mod N = N - 1 makes the extraction
\* degenerate.
C4_PrimeNeverFactored ==
    (entry = QSF /\ N >= 3 /\ IsPrime(N)) =>
        /\ result = NoResult /\ ~raised
        /\ "gcd" \in Steps => gcd_value = 1
        /\ pc = "done" =>
              \/ Last(trace) = "order" /\ r # None /\ r % 2 = 1
              \/ /\ Last(trace) = "verify" /\ r # None /\ r % 2 = 0
                 /\ PowerMod(a, r \div 2, N) = N - 1
                 /\ factors = <<None, None>>

\* a retried attempt on a prime ends at the degenerate extraction
C4_Witness ==
    /\ entry = QSF /\ IsPrime(N) /\ N >= 3 /\ retried
    /\ pc = "done" /\ Last(trace) = "verify" /\ result = NoResult

\* C5: for every positive N a call of quantum_symmetry_factor ends either
\* with a verified factor pair or with None, and never with an exception.
C5_NoException ==
    (entry = QSF /\ pc = "done") =>
        /\ ~raised
        /\ \/ result = NoResult
           \/ Len(result) = 2 /\ result[1] * result[2] = N

\* C7: when g = gcd(a, N) > 1 the attempt ends with exactly (g, N div g)
\* without invoking the order finder or the extractor; the order finder is
\* only ever invoked with a base coprime to N.
C7_TrivialGcdShortcut ==
    (entry = QSF /\ N >= 3 /\ "gcd" \in Steps) =>
        /\ gcd_value = MathGcd(a, N)
        /\ MathGcd(a, N) > 1 =>
              /\ pc = "done" /\ ~raised
              /\ result = <<MathGcd(a, N), N \div MathGcd(a, N)>>
              /\ trace = <<"sample", "gcd">>
              /\ r = None /\ factors = <<None, None>>
        /\ "order" \in Steps => MathGcd(a, N) = 1

\* the shortcut taken with a base sharing the factor 2 with N
C7_Witness ==
    /\ entry = QSF /\ N >= 3 /\ pc = "done"
    /\ gcd_value = 2 /\ result = <<2, N \div 2>> /\ a > 2

\* C8: for N >= 3, a coprime to N and r the even order of a modulo N,
\* extract_symmetry(a, r, N) returns (None, None) exactly when
\* x = a^(r/2) mod N is 1 or N - 1, and otherwise the greatest common
\* divisors (gcd(x - 1, N), gcd(x + 1, N)).
C8_ExtractContract ==
    (ExtractReturned /\ N >= 3 /\ a >= 1 /\ MathGcd(a, N) = 1
        /\ r # None /\ r % 2 = 0 /\ IsOrder(a, r, N)) =>
        LET x == PowerMod(a, r \div 2, N)
        IN  /\ factors = <<None, None>> <=> (x = 1 \/ x = N - 1)
            /\ ~(x = 1 \/ x = N - 1) =>
                  factors = <<MathGcd(x - 1, N), MathGcd(x + 1, N)>>

\* a direct call on an even order that yields two candidates
C8_Witness ==
    /\ entry = EXS /\ pc = "done" /\ N >= 3 /\ a >= 1 /\ MathGcd(a, N) = 1
    /\ r % 2 = 0 /\ IsOrder(a, r, N)
    /\ factors # <<None, None>>

\* C10: for odd N >= 3 and a coprime to N of even order r, candidates
\* yielded by extract_symmetry always multiply to N, so the verification
\* never fails for odd N; a verification mismatch needs an even N.
C10_OddModulusVerifies ==
    /\ (ExtractReturned /\ N >= 3 /\ N % 2 = 1 /\ a >= 1 /\ MathGcd(a, N) = 1
          /\ r # None /\ r % 2 = 0 /\ IsOrder(a, r, N)
          /\ factors # <<None, None>>)
          => factors[1] * factors[2] = N
    /\ (entry = QSF /\ N >= 3 /\ "verify" \in Steps
          /\ factors # <<None, None>> /\ result = NoResult)
          => N % 2 = 0

\* candidates for an odd N waiting to be verified
C10_Witness ==
    /\ entry = QSF /\ N >= 3 /\ N % 2 = 1 /\ pc = "verify"
    /\ factors # <<None, None>>

\* a verification mismatch, on an even N
C10_MismatchReached ==
    /\ entry = QSF /\ pc = "done" /\ Last(trace) = "verify"
    /\ factors # <<None, None>> /\ result = NoResult /\ N % 2 = 0

\* the steps of one attempt in their order
Rank(p) ==
    CASE p = "sample"  -> 1
      [] p = "gcd"     -> 2
      [] p = "order"   -> 3
      [] p = "extract" -> 4
      [] p = "verify"  -> 5
      [] p = "done"    -> 6
      [] OTHER         -> 0

\* the caller starting a new invocation after one that returned None
NewInvocation ==
    /\ pc = "done" /\ result = NoResult /\ ~raised
    /\ pc' = "sample" /\ trace' = << >>

\* C3: for a composite N >= 4, a caller repeating quantum_symmetry_factor(N)
\* with fresh bases eventually obtains a pair (f1, f2) with f1 * f2 = N,
\* every base of [2, N-1] being sampled again and again.
C3_EventuallyFactored ==
    (entry = QSF /\ IsComposite(N) /\ pc = "sample")
        ~> (PairReturned /\ Len(result) = 2 /\ result[1] * result[2] = N)

\* a composite factored by a call that followed a failed one
C3_Witness ==
    /\ PairReturned /\ IsComposite(N) /\ retried
    /\ result[1] * result[2] = N

\* C6: an invocation with N >= 3 is a single attempt: the base is sampled
\* once, the steps sample, GCD check, order finding, extraction,
\* verification are passed in that order at most once each, no step leads
\* back to an earlier one, and the invocation terminates.
C6_SingleAttempt ==
    /\ [](entry = QSF /\ N >= 3 =>
            /\ Len(trace) <= 5
            /\ \A i \in 1..Len(trace) : Rank(trace[i]) \in 1..5
            /\ \A i, j \in 1..Len(trace) :
                  i < j => Rank(trace[i]) < Rank(trace[j])
            /\ trace # << >> => trace[1] = "sample"
            /\ pc # "done" => Rank(pc) = Len(trace) + 1)
    /\ [][entry = QSF /\ N >= 3 =>
            \/ /\ Rank(pc') > Rank(pc)
               /\ trace' = Append(trace, pc)
               /\ (pc # "sample" => a' = a)
            \/ NewInvocation]_vars
    /\ (entry = QSF /\ N >= 3 /\ pc = "sample") ~> (pc = "done")

\* an invocation that went through all five steps and ended
C6_Witness ==
    /\ entry = QSF /\ N >= 3 /\ pc = "done"
    /\ trace = <<"sample", "gcd", "order", "extract", "verify">>

====
